---- MODULE Spec2Model ----
(***************************************************************************)
(* A model of app.py, the review-sentiment dashboard.  The script is run   *)
(* top to bottom once per user interaction: pick the input file, load it,  *)
(* draw the sidebar, then the six sections.  A run ends "done", "stopped"  *)
(* (st.stop) or "crashed" (an exception nothing catches).                  *)
(*                                                                         *)
(* Strings of the source written in Chinese are transliterated:            *)
(*   '正面' "positive", '负面' "negative", '中性' "neutral",                  *)
(*   '未提及' "not-mentioned", '全部' "all", '仅看好评' "positive-only",       *)
(*   '仅看差评' "negative-only".                                             *)
(***************************************************************************)
EXTENDS Integers, Sequences, FiniteSets, TLC

VARIABLES
    uploaded_file,   \* the file in the uploader widget, or NoFile
    default_file,    \* final_analysis_result.csv in the working directory, or NoFile
    wc_option,       \* the radio's value
    date_value,      \* the date_input's value as set by the user; <<>> = untouched
    pc,              \* position of the running script
    load_arg,        \* what load_data was called with in this run
    df,              \* the loaded table
    widgets,         \* the input widgets this run has drawn
    date_range,      \* <<start_date, end_date>> once assigned
    total_comments, positive_rate, metric_label, counts, top_aspect,
    df_plot, aspect_counts, neg_counts,
    text_content,
    cloud,           \* how the cloud generator ended: "not-run", "generated", "failed"
    shown_table, csv,
    sections,        \* what each of the six sections shows
    messages,        \* st.error / st.success / st.info boxes outside the sections
    exception,       \* the exception that ended the run, or "none"
    bound,           \* the names of the script this run has assigned
    snapshot         \* outputs of the previous run, kept when only the date changed

vars == <<uploaded_file, default_file, wc_option, date_value, pc, load_arg, df,
          widgets, date_range, total_comments, positive_rate, metric_label,
          counts, top_aspect, df_plot, aspect_counts, neg_counts, text_content,
          cloud, shown_table, csv, sections, messages, exception, bound,
          snapshot>>

(***************************************************************************)
(* Bounds                                                                  *)
(***************************************************************************)
MaxRows == 2         \* rows of an input table drawn from RowKinds

(***************************************************************************)
(* Program constants                                                       *)
(***************************************************************************)
LABEL_COLUMNS ==
    << "Location#Transportation", "Location#Downtown", "Location#Easy_to_find",
       "Service#Queue", "Service#Hospitality", "Service#Parking", "Service#Timely",
       "Price#Level", "Price#Cost_effective", "Price#Discount",
       "Ambience#Decoration", "Ambience#Noise", "Ambience#Space", "Ambience#Sanitary",
       "Food#Portion", "Food#Taste", "Food#Appearance", "Food#Recommend" >>

LabelSet == {LABEL_COLUMNS[i] : i \in DOMAIN LABEL_COLUMNS}

\* ASPECT_MAP.get(col, col): the display name of a dimension
ASPECT_MAP(col) ==
    CASE col = "Food#Taste"           -> "taste"
      [] col = "Food#Portion"         -> "portion"
      [] col = "Food#Appearance"      -> "appearance"
      [] col = "Food#Recommend"       -> "overall recommendation"
      [] col = "Price#Level"          -> "price level"
      [] col = "Price#Cost_effective" -> "value for money"
      [] col = "Price#Discount"       -> "discount"
      [] col = "Service#Timely"       -> "delivery time"
      [] col = "Service#Hospitality"  -> "service attitude"
      [] col = "Service#Queue"        -> "queue"
      [] col = "Ambience#Decoration"  -> "packaging"
      [] col = "Ambience#Sanitary"    -> "hygiene"
      [] OTHER                        -> col

SENTIMENTS == <<"positive", "negative", "neutral">>   \* the order of line 128

AllColumns == {"content", "score", "time"} \cup LabelSet

(***************************************************************************)
(* Values.  A numeric cell is an integer; the float NaN and the datetime   *)
(* NaT are the two sentinels below.  An object cell is a string, and NaN   *)
(* in an object column is the string "NaN" (read_csv never yields the      *)
(* four-letter text itself: it is one of its NA markers).                   *)
(***************************************************************************)
NaN == -1
NaT == 0
NaNObj == "NaN"

NoFile == [kind |-> "none"]
Malformed == [kind |-> "malformed"]
None == [kind |-> "None"]

(***************************************************************************)
(* Numerals and dates as they are written in a CSV file                    *)
(***************************************************************************)
Numerals == <<"1", "2", "3", "4", "5">>
Numbers == DOMAIN Numerals

FormatInt(n) == Numerals[n]               \* an int64 cell, as to_csv writes it
FormatFloat(n) == Numerals[n] \o ".0"     \* a float64 cell, as to_csv writes it
IsIntNumeral(s) == \E n \in Numbers : s = FormatInt(n)
IsNumeral(s) == \E n \in Numbers : s = FormatInt(n) \/ s = FormatFloat(n)
NumVal(s) == CHOOSE n \in Numbers : s = FormatInt(n) \/ s = FormatFloat(n)

\* days of January 2023; a Timestamp is its day number
IsoDate(d) == "2023-01-0" \o Numerals[d]    \* how to_csv writes a midnight Timestamp
SlashDate(d) == "2023/01/0" \o Numerals[d]  \* another spelling to_datetime accepts

\* the markers read_csv reads as a missing value (those the inputs can hold)
NA_VALUES == {"", "NaN", "nan", "NA", "null"}

(***************************************************************************)
(* pandas, as far as the script uses it                                    *)
(***************************************************************************)
RECURSIVE SeqSum(_)
SeqSum(s) == IF s = <<>> THEN 0 ELSE Head(s) + SeqSum(Tail(s))

\* pd.to_datetime(x, errors='coerce') on one cell: a Timestamp for a text
\* that is a date, NaT for any other (each cell parsed by itself)
to_datetime(x) ==
    IF \E d \in Numbers : x = IsoDate(d) \/ x = SlashDate(d)
    THEN CHOOSE d \in Numbers : x = IsoDate(d) \/ x = SlashDate(d)
    ELSE NaT

\* the dtype read_csv infers for the score column
ScoreDtype(cells) ==
    IF cells = <<>> THEN "object"
    ELSE IF \A i \in DOMAIN cells : IsIntNumeral(cells[i]) THEN "int64"
    ELSE "float64"

\* one cell as read_csv parses it
ParseCell(col, x) ==
    IF col = "score" THEN (IF IsNumeral(x) THEN NumVal(x) ELSE NaN)
    ELSE IF x \in NA_VALUES THEN NaNObj ELSE x

\* pd.read_csv on a well-formed file (a byte-order mark is skipped)
read_csv(file) ==
    [ kind        |-> "DataFrame",
      columns     |-> file.columns,
      score_dtype |-> IF "score" \in file.columns
                      THEN ScoreDtype([i \in DOMAIN file.rows |-> file.rows[i]["score"]])
                      ELSE "absent",
      rows        |-> [i \in DOMAIN file.rows |->
                         [c \in file.columns |-> ParseCell(c, file.rows[i][c])]] ]

\* load_data: None on any exception, else the table with 'time' coerced.
\* st.cache_data keeps the result per argument; the files of a behaviour do
\* not change, so the cached result is the one computed here.
load_data(file) ==
    IF file.kind # "csv" THEN None
    ELSE LET d == read_csv(file) IN
         IF "time" \in d.columns
         THEN [d EXCEPT !.rows = [i \in DOMAIN d.rows |->
                                    [d.rows[i] EXCEPT !["time"] = to_datetime(@)]]]
         ELSE d

\* one cell as to_csv writes it
FormatCell(d, col, x) ==
    IF col = "score"
    THEN (IF x = NaN THEN ""
          ELSE IF d.score_dtype = "int64" THEN FormatInt(x) ELSE FormatFloat(x))
    ELSE IF col = "time" THEN (IF x = NaT THEN "" ELSE IsoDate(x))
    ELSE IF x = NaNObj THEN "" ELSE x

\* a mutant of to_csv: index=False forgotten, so the row index is written
\* as a first, unnamed column
to_csvWithIndex(d) ==
    [ kind |-> "csv", bom |-> TRUE, columns |-> d.columns \cup {"Unnamed: 0"},
      rows |-> [i \in DOMAIN d.rows |->
                  [c \in d.columns \cup {"Unnamed: 0"} |->
                     IF c = "Unnamed: 0" THEN "row" ELSE FormatCell(d, c, d.rows[i][c])]] ]

\* df.to_csv(index=False).encode('utf-8-sig')
to_csv(d) ==
    [ kind |-> "csv", bom |-> TRUE, columns |-> d.columns,
      rows |-> [i \in DOMAIN d.rows |->
                  [c \in d.columns |-> FormatCell(d, c, d.rows[i][c])]] ]

(***************************************************************************)
(* The aggregator (lines 93-138)                                           *)
(***************************************************************************)
\* comparisons of a float column with a number: NaN compares False
Ge(x, k) == x # NaN /\ x >= k
Le(x, k) == x # NaN /\ x <= k

\* df[mask].shape[0]: the number of rows of a selection
shape0(rows) == Len(rows)

\* a mutant of PositiveRate: the label-based formula even when score is there
PositiveRateByLabel(d) ==
    [ num |-> 100 * shape0(SelectSeq(d.rows,
                                     LAMBDA r : r["Food#Recommend"] = "positive")),
      den |-> Len(d.rows) ]

\* lines 95-101: (k / total_comments) * 100 as the fraction num/den; the
\* caller has checked the division and the column
PositiveRate(d) ==
    IF "score" \in d.columns
    THEN [ num |-> 100 * shape0(SelectSeq(d.rows, LAMBDA r : Ge(r["score"], 4))),
           den |-> Len(d.rows) ]
    ELSE [ num |-> 100 * shape0(SelectSeq(d.rows,
                                          LAMBDA r : r["Food#Recommend"] = "positive")),
           den |-> Len(d.rows) ]

MetricLabel(d) ==
    IF "score" \in d.columns THEN "five-star rate" ELSE "recommendation index"

\* lines 110-112
Counts(d) ==
    [c \in LabelSet |-> shape0(SelectSeq(d.rows, LAMBDA r : r[c] # "not-mentioned"))]

\* max(counts, key=counts.get): the keys in insertion order, the first
\* maximal one kept
RECURSIVE MaxFrom(_, _, _)
MaxFrom(cnt, i, best) ==
    IF i > Len(LABEL_COLUMNS) THEN best
    ELSE MaxFrom(cnt, i + 1,
                 IF cnt[LABEL_COLUMNS[i]] > cnt[best] THEN LABEL_COLUMNS[i] ELSE best)

\* a mutant of TopAspect: the last maximal key wins
RECURSIVE MaxFromLast(_, _, _)
MaxFromLast(cnt, i, best) ==
    IF i > Len(LABEL_COLUMNS) THEN best
    ELSE MaxFromLast(cnt, i + 1,
                     IF cnt[LABEL_COLUMNS[i]] >= cnt[best] THEN LABEL_COLUMNS[i] ELSE best)

TopAspectLast(cnt) == MaxFromLast(cnt, 2, LABEL_COLUMNS[1])

TopAspect(cnt) == MaxFrom(cnt, 2, LABEL_COLUMNS[1])

\* lines 124-138: one entry per (dimension, sentiment) with a count > 0
PlotEntry(d, k) ==
    LET col == LABEL_COLUMNS[((k - 1) \div Len(SENTIMENTS)) + 1]
        sentiment == SENTIMENTS[((k - 1) % Len(SENTIMENTS)) + 1]
    IN [ dimension     |-> ASPECT_MAP(col),
         raw_dimension |-> col,
         sentiment     |-> sentiment,
         comment_count |-> shape0(SelectSeq(d.rows, LAMBDA r : r[col] = sentiment)) ]

\* a mutant of PlotData: not-mentioned cells counted as neutral
PlotDataLoose(d) ==
    SelectSeq([k \in 1..(Len(LABEL_COLUMNS) * Len(SENTIMENTS)) |->
                 LET e == PlotEntry(d, k) IN
                 IF e.sentiment = "neutral"
                 THEN [e EXCEPT !.comment_count =
                         @ + shape0(SelectSeq(d.rows,
                                        LAMBDA r : r[e.raw_dimension] = "not-mentioned"))]
                 ELSE e],
              LAMBDA e : e.comment_count > 0)

PlotData(d) ==
    SelectSeq([k \in 1..(Len(LABEL_COLUMNS) * Len(SENTIMENTS)) |-> PlotEntry(d, k)],
              LAMBDA e : e.comment_count > 0)

(***************************************************************************)
(* The charts' tables (lines 157, 169)                                     *)
(***************************************************************************)
\* groupby('dimension')['comment_count'].sum(): the total of each display
\* name.  The row order of the result is not kept: the chart sorts by itself.
AspectCounts(plot) ==
    LET names == {plot[i].dimension : i \in DOMAIN plot} IN
    [n \in names |->
        SeqSum([i \in DOMAIN plot |->
                  IF plot[i].dimension = n THEN plot[i].comment_count ELSE 0])]

\* sort_values('comment_count', ascending=False): entries of equal count
\* keep their order
RECURSIVE InsertDesc(_, _)
InsertDesc(e, sorted) ==
    IF sorted = <<>> THEN <<e>>
    ELSE IF Head(sorted).comment_count >= e.comment_count
         THEN <<Head(sorted)>> \o InsertDesc(e, Tail(sorted))
         ELSE <<e>> \o sorted

RECURSIVE SortDesc(_)
SortDesc(s) ==
    IF s = <<>> THEN <<>>
    ELSE InsertDesc(s[Len(s)], SortDesc(SubSeq(s, 1, Len(s) - 1)))

Head5(s) == SubSeq(s, 1, IF Len(s) < 5 THEN Len(s) ELSE 5)

\* line 169
NegCounts(plot) ==
    Head5(SortDesc(SelectSeq(plot, LAMBDA e : e.sentiment = "negative")))

(***************************************************************************)
(* The word cloud's text (lines 190-199)                                   *)
(***************************************************************************)
\* astype(str) on an object cell
AsStr(x) == IF x = NaNObj THEN "nan" ELSE x

\* " ".join(...): the pieces with a blank between two of them
RECURSIVE Join(_)
Join(s) ==
    IF s = <<>> THEN <<>>
    ELSE IF Len(s) = 1 THEN <<AsStr(s[1]["content"])>>
    ELSE <<AsStr(s[1]["content"]), " ">> \o Join(Tail(s))

TextContent(d, option) ==
    IF option = "positive-only" /\ "score" \in d.columns
    THEN Join(SelectSeq(d.rows, LAMBDA r : Ge(r["score"], 4)))
    ELSE IF option = "negative-only" /\ "score" \in d.columns
    THEN Join(SelectSeq(d.rows, LAMBDA r : Le(r["score"], 2)))
    ELSE Join(d.rows)

(***************************************************************************)
(* Inputs: the CSV files a user can upload                                 *)
(***************************************************************************)
Labels(over) ==
    [c \in LabelSet |-> IF c \in DOMAIN over THEN over[c] ELSE "not-mentioned"]

RawRow(content, score, time, over) ==
    ("content" :> content) @@ ("score" :> score) @@ ("time" :> time) @@ Labels(over)

Praise ==
    RawRow("tasty", "5", IsoDate(5),
           ("Food#Taste" :> "positive") @@ ("Food#Recommend" :> "positive"))
Complaint ==
    RawRow("awful", "1", SlashDate(2), [c \in LabelSet |-> "negative"])
Mixed ==
    RawRow("fine", "4.0", "yesterday",
           ("Location#Transportation" :> "neutral") @@ ("Food#Recommend" :> "negative"))
Blank ==
    RawRow("", "", "", ("Location#Transportation" :> ""))
Silent ==
    RawRow("so-so", "3", IsoDate(5), <<>>)
Slow ==
    RawRow("slow", "2", IsoDate(3),
           [c \in {LABEL_COLUMNS[i] : i \in 1..6} |-> "negative"]
           @@ ("Food#Recommend" :> "positive"))

RowKinds == {Praise, Complaint, Mixed, Blank, Silent, Slow}

Tables == UNION {[1..n -> RowKinds] : n \in 0..MaxRows}

\* the spec's scenario: ten rows, six of them with score >= 4
ScenarioRows == [i \in 1..10 |-> IF i <= 6 THEN Praise ELSE Slow]

CsvFile(columns, rows) ==
    [ kind |-> "csv", bom |-> FALSE, columns |-> columns,
      rows |-> [i \in DOMAIN rows |-> [c \in columns |-> rows[i][c]]] ]

\* the columns a file may lack
Drops == {{}, {"score"}, {"time"}, {"content"}, {"Service#Parking"}}

UploadFiles ==
    {Malformed}
    \cup {CsvFile(AllColumns \ drop, t) : t \in Tables, drop \in Drops}
    \cup {CsvFile(AllColumns \ drop, ScenarioRows) : drop \in {{}, {"score"}}}

DefaultFiles == {NoFile, CsvFile(AllColumns, <<Praise, Mixed>>)}

WC_OPTIONS == {"all", "positive-only", "negative-only"}

\* what the user can set the date_input to: one date (a range half chosen)
\* or two
DateValues == {<<3>>, <<3, 3>>, <<3, 5>>}

(***************************************************************************)
(* The state of a run                                                      *)
(***************************************************************************)
SECTIONS == {"kpi", "stacked", "ranking", "negative", "wordcloud", "table"}

\* the value of a name nothing is assigned to yet
Unset == [kind |-> "unset"]
Bound(name) == name \in bound

Terminal == {"done", "stopped", "crashed"}

\* the script starts over: every name of the script is unbound again
StartRun ==
    /\ pc' = "start"
    /\ load_arg' = "none"
    /\ df' = Unset
    /\ widgets' = {}
    /\ date_range' = Unset
    /\ total_comments' = Unset
    /\ positive_rate' = Unset
    /\ metric_label' = Unset
    /\ counts' = Unset
    /\ top_aspect' = Unset
    /\ df_plot' = Unset
    /\ aspect_counts' = Unset
    /\ neg_counts' = Unset
    /\ text_content' = Unset
    /\ cloud' = "not-run"
    /\ shown_table' = Unset
    /\ csv' = Unset
    /\ sections' = [s \in SECTIONS |-> "none"]
    /\ messages' = {}
    /\ exception' = "none"
    /\ bound' = {}

Init ==
    /\ uploaded_file = NoFile
    /\ default_file \in DefaultFiles
    /\ wc_option = "all"
    /\ date_value = <<>>
    /\ pc = "start"
    /\ load_arg = "none"
    /\ df = Unset
    /\ widgets = {}
    /\ date_range = Unset
    /\ total_comments = Unset
    /\ positive_rate = Unset
    /\ metric_label = Unset
    /\ counts = Unset
    /\ top_aspect = Unset
    /\ df_plot = Unset
    /\ aspect_counts = Unset
    /\ neg_counts = Unset
    /\ text_content = Unset
    /\ cloud = "not-run"
    /\ shown_table = Unset
    /\ csv = Unset
    /\ sections = [s \in SECTIONS |-> "none"]
    /\ messages = {}
    /\ exception = "none"
    /\ bound = {}
    /\ snapshot = Unset

inputVars == <<uploaded_file, default_file, wc_option, date_value, snapshot>>
kpiVars == <<total_comments, positive_rate, metric_label, counts, top_aspect>>
chartVars == <<df_plot, aspect_counts, neg_counts>>
exportVars == <<shown_table, csv>>
textVars == <<text_content, cloud>>

\* an exception nothing catches ends the run (Streamlit prints its traceback
\* on the page and runs nothing after the line that raised)
Raise(e) == pc' = "crashed" /\ exception' = e

(***************************************************************************)
(* The script, one action per block of it                                  *)
(***************************************************************************)
\* a mutant of InputSource: the default file wins when it exists
InputSourceDefaultFirst(uploaded, default) ==
    IF default # NoFile THEN "default"
    ELSE IF uploaded # NoFile THEN "uploaded"
    ELSE "none"

\* lines 65-71: which file is handed to load_data
InputSource(uploaded, default) ==
    IF uploaded # NoFile THEN "uploaded"
    ELSE IF default # NoFile THEN "default"
    ELSE "none"

\* lines 62-73
SelectFile ==
    /\ pc = "start"
    /\ LET source == InputSource(uploaded_file, default_file) IN
       /\ load_arg' = source
       /\ bound' = IF source = "none" THEN bound ELSE bound \cup {"df"}
       /\ IF source = "uploaded"
          THEN /\ df' = load_data(uploaded_file)
               /\ messages' = messages \cup {"sidebar.success: uploaded file loaded"}
               /\ pc' = "sidebar"
          ELSE IF source = "default"
          THEN /\ df' = load_data(default_file)
               /\ messages' = messages \cup {"sidebar.info: default file loaded"}
               /\ pc' = "sidebar"
          ELSE /\ df' = df
               /\ messages' = messages \cup {"error: data file not found"}
               /\ pc' = "stopped"
    /\ UNCHANGED <<inputVars, kpiVars, chartVars, exportVars, widgets, date_range,
                   textVars, sections, exception>>

\* df['time'].min() and .max(): NaT is skipped, and NaT is the result when
\* nothing is left
TimeValues(d) == {d.rows[i]["time"] : i \in DOMAIN d.rows} \ {NaT}
MinTime(d) ==
    IF TimeValues(d) = {} THEN NaT
    ELSE CHOOSE t \in TimeValues(d) : \A u \in TimeValues(d) : t <= u
MaxTime(d) ==
    IF TimeValues(d) = {} THEN NaT
    ELSE CHOOSE t \in TimeValues(d) : \A u \in TimeValues(d) : t >= u

\* st.sidebar.date_input(label, [min_date, max_date]): the user's value if
\* there is one, else the default
DateInput(default) == IF date_value = <<>> THEN default ELSE date_value

\* lines 75-81
Sidebar ==
    /\ pc = "sidebar"
    /\ IF df = None
       THEN /\ Raise("AttributeError")       \* None has no attribute 'columns'
            /\ UNCHANGED <<widgets, date_range, bound>>
       ELSE IF "time" \in df.columns /\ MinTime(df) # NaT /\ MaxTime(df) # NaT
       THEN LET value == DateInput(<<MinTime(df), MaxTime(df)>>) IN
            /\ widgets' = widgets \cup {"date_input"}
            /\ IF Len(value) = 2
               THEN /\ date_range' = value
                    /\ bound' = bound \cup {"date_range"}
                    /\ pc' = "kpi"
                    /\ UNCHANGED exception
               ELSE /\ Raise("ValueError")   \* not enough values to unpack
                    /\ UNCHANGED <<date_range, bound>>
       ELSE /\ pc' = "kpi"
            /\ UNCHANGED <<widgets, date_range, exception, bound>>
    /\ UNCHANGED <<inputVars, kpiVars, chartVars, exportVars, load_arg, df,
                   textVars, sections, messages>>

\* a mutant of TotalComments: the rows within the chosen date range only
TotalCommentsInRange(d) ==
    IF Bound("date_range")
    THEN shape0(SelectSeq(d.rows, LAMBDA r : /\ r["time"] # NaT
                                       /\ date_range[1] <= r["time"]
                                       /\ r["time"] <= date_range[2]))
    ELSE Len(d.rows)

\* len(df)
TotalComments(d) == Len(d.rows)

\* lines 89-118
Kpi ==
    /\ pc = "kpi"
    /\ total_comments' = TotalComments(df)
    /\ IF "score" \notin df.columns /\ "Food#Recommend" \notin df.columns
       THEN /\ Raise("KeyError")
            /\ bound' = bound \cup {"total_comments"}
            /\ UNCHANGED <<positive_rate, metric_label, counts, top_aspect, sections>>
       ELSE IF TotalComments(df) = 0
       THEN /\ Raise("ZeroDivisionError")
            /\ bound' = bound \cup {"total_comments"}
            /\ UNCHANGED <<positive_rate, metric_label, counts, top_aspect, sections>>
       ELSE /\ positive_rate' = PositiveRate(df)
            /\ metric_label' = MetricLabel(df)
            /\ IF LabelSet \subseteq df.columns
               THEN /\ counts' = Counts(df)
                    /\ top_aspect' = TopAspect(Counts(df))
                    /\ bound' = bound \cup {"total_comments", "positive_rate",
                                             "metric_label", "counts", "top_aspect"}
                    /\ sections' = [sections EXCEPT !["kpi"] = "rendered"]
                    /\ pc' = "stacked"
                    /\ UNCHANGED exception
               ELSE \* the first two metrics are on the page already
                    /\ Raise("KeyError")
                    /\ sections' = [sections EXCEPT !["kpi"] = "partial"]
                    /\ bound' = bound \cup {"total_comments", "positive_rate",
                                             "metric_label"}
                    /\ UNCHANGED <<counts, top_aspect>>
    /\ UNCHANGED <<inputVars, chartVars, exportVars, load_arg, df, widgets,
                   date_range, textVars, messages>>

\* lines 120-150
Stacked ==
    /\ pc = "stacked"
    /\ df_plot' = PlotData(df)
    /\ bound' = bound \cup {"df_plot"}
    /\ IF PlotData(df) = <<>>
       THEN \* a DataFrame of no rows has no columns: the chart's encoding
            \* fields have no type, and st.altair_chart raises
            /\ Raise("ValueError")
            /\ UNCHANGED sections
       ELSE /\ sections' = [sections EXCEPT !["stacked"] = "rendered"]
            /\ pc' = "ranking"
            /\ UNCHANGED exception
    /\ UNCHANGED <<inputVars, kpiVars, exportVars, load_arg, df, widgets,
                   date_range, aspect_counts, neg_counts, textVars, messages>>

\* lines 154-164
Ranking ==
    /\ pc = "ranking"
    /\ IF df_plot = <<>>
       THEN /\ Raise("KeyError")             \* groupby of a column that is not there
            /\ UNCHANGED <<aspect_counts, sections, bound>>
       ELSE /\ aspect_counts' = AspectCounts(df_plot)
            /\ bound' = bound \cup {"aspect_counts"}
            /\ sections' = [sections EXCEPT !["ranking"] = "rendered"]
            /\ pc' = "negative"
            /\ UNCHANGED exception
    /\ UNCHANGED <<inputVars, kpiVars, exportVars, load_arg, df, widgets,
                   date_range, df_plot, neg_counts, textVars, messages>>

\* lines 166-179
Negative ==
    /\ pc = "negative"
    /\ IF df_plot = <<>>
       THEN /\ Raise("KeyError")             \* no 'sentiment' column to select by
            /\ UNCHANGED <<neg_counts, sections, bound>>
       ELSE /\ neg_counts' = NegCounts(df_plot)
            /\ bound' = bound \cup {"neg_counts"}
            /\ sections' = [sections EXCEPT !["negative"] =
                              IF NegCounts(df_plot) # <<>> THEN "chart" ELSE "success"]
            /\ pc' = "wordcloud"
            /\ UNCHANGED exception
    /\ UNCHANGED <<inputVars, kpiVars, exportVars, load_arg, df, widgets,
                   date_range, df_plot, aspect_counts, textVars, messages>>

\* a mutant of WordCloudBlock: an error box for an empty text too
WordCloudBlockStrict(text, generated) ==
    IF text # <<>> /\ generated THEN "image" ELSE "error"

\* lines 201-217: what the section shows, given whether WordCloud.generate
\* and the plotting went through
WordCloudBlock(text, generated) ==
    IF text # <<>>
    THEN (IF generated THEN "image" ELSE "error")
    ELSE "skipped"

\* lines 183-218
WordCloud ==
    /\ pc = "wordcloud"
    /\ widgets' = widgets \cup {"radio"}
    /\ IF "content" \notin df.columns
       THEN /\ Raise("KeyError")
            /\ UNCHANGED <<textVars, sections, bound>>
       ELSE /\ text_content' = TextContent(df, wc_option)
            /\ bound' = bound \cup {"text_content"}
            /\ \E generated \in BOOLEAN :
                 /\ cloud' = IF TextContent(df, wc_option) = <<>> THEN "not-run"
                             ELSE IF generated THEN "generated" ELSE "failed"
                 /\ sections' = [sections EXCEPT !["wordcloud"] =
                                   WordCloudBlock(TextContent(df, wc_option), generated)]
            /\ pc' = "table"
            /\ UNCHANGED exception
    /\ UNCHANGED <<inputVars, kpiVars, chartVars, exportVars, load_arg, df,
                   date_range, messages>>

\* lines 220-235
Table ==
    /\ pc = "table"
    /\ shown_table' = df
    /\ csv' = to_csv(df)
    /\ bound' = bound \cup {"csv"}
    /\ sections' = [sections EXCEPT !["table"] = "rendered"]
    /\ pc' = "done"
    /\ UNCHANGED <<inputVars, kpiVars, chartVars, load_arg, df, widgets,
                   date_range, textVars, messages, exception>>

(***************************************************************************)
(* The user: every interaction runs the script again                       *)
(***************************************************************************)
\* what a finished run has put out
Outputs ==
    [ total_comments |-> total_comments, positive_rate |-> positive_rate,
      top_aspect |-> top_aspect, df_plot |-> df_plot, text_content |-> text_content,
      shown_table |-> shown_table, csv |-> csv ]

\* a file is put into the empty uploader
Upload ==
    /\ pc \in Terminal
    /\ uploaded_file = NoFile
    /\ \E f \in UploadFiles : uploaded_file' = f
    /\ snapshot' = Unset
    /\ UNCHANGED <<default_file, wc_option, date_value>>
    /\ StartRun

\* the uploader is cleared (replacing the file is clearing and uploading)
RemoveUpload ==
    /\ pc \in Terminal
    /\ uploaded_file # NoFile
    /\ uploaded_file' = NoFile
    /\ snapshot' = Unset
    /\ UNCHANGED <<default_file, wc_option, date_value>>
    /\ StartRun

SelectOption ==
    /\ pc \in Terminal
    /\ "radio" \in widgets
    /\ \E o \in WC_OPTIONS \ {wc_option} : wc_option' = o
    /\ snapshot' = Unset
    /\ UNCHANGED <<uploaded_file, default_file, date_value>>
    /\ StartRun

SelectDate ==
    /\ pc \in Terminal
    /\ "date_input" \in widgets
    /\ \E v \in DateValues \ {date_value} : date_value' = v
    /\ snapshot' = IF pc = "done" THEN Outputs ELSE Unset
    /\ UNCHANGED <<uploaded_file, default_file, wc_option>>
    /\ StartRun

Next ==
    \/ SelectFile
    \/ Sidebar
    \/ Kpi
    \/ Stacked
    \/ Ranking
    \/ Negative
    \/ WordCloud
    \/ Table
    \/ Upload
    \/ RemoveUpload
    \/ SelectOption
    \/ SelectDate

Spec == Init /\ [][Next]_vars

(***************************************************************************)
(* Properties                                                              *)
(***************************************************************************)
\* the file this run handed to load_data
TheFile == IF load_arg = "uploaded" THEN uploaded_file ELSE default_file

IsTable(d) == d.kind = "DataFrame"
RowIndexes == IF IsTable(df) THEN DOMAIN df.rows ELSE {}

\* the st.error boxes of the script outside the word-cloud block (line 72)
ERROR_BOXES == {"error: data file not found"}

\* C1: when the load step yields no rows (load_data returned None, or a table
\* of zero rows), the run halts with a user-facing message, nothing of the
\* aggregator is computed, and no exception is left uncaught.
C1_NoRowsHaltsCleanly ==
    (load_arg # "none" /\ (df = None \/ (IsTable(df) /\ df.rows = <<>>)))
    => /\ exception = "none"
       /\ ~Bound("total_comments") /\ ~Bound("positive_rate")
       /\ ~Bound("top_aspect") /\ ~Bound("df_plot")
       /\ pc \in Terminal => (pc = "stopped" /\ messages \cap ERROR_BOXES # {})

\* C2: in every run that gets past loading, each of the six sections is
\* rendered or replaced by an inline error: no failure in one section keeps
\* the later ones from being reached.
C2_SectionsIsolated ==
    (pc \in Terminal /\ IsTable(df) /\ df.rows # <<>>)
    => /\ exception = "none"
       /\ \A sec \in SECTIONS : sections[sec] \notin {"none", "partial"}

\* C3: with no upload and no default file the run shows an error and stops,
\* load_data is not called and no section is rendered; with an upload, the
\* uploaded file is the one loaded, whether or not the default file exists.
C3_FileSelection ==
    /\ (uploaded_file = NoFile /\ default_file = NoFile /\ pc # "start")
       => /\ pc = "stopped"
          /\ "error: data file not found" \in messages
          /\ load_arg = "none" /\ ~Bound("df")
          /\ \A sec \in SECTIONS : sections[sec] = "none"
    /\ (uploaded_file # NoFile /\ pc # "start")
       => /\ load_arg = "uploaded"
          /\ df = load_data(uploaded_file)

C3_Witness ==
    /\ pc = "stopped"
    /\ uploaded_file = NoFile /\ default_file = NoFile
    /\ "error: data file not found" \in messages

\* rows of the loaded table with score >= 4, and rows recommended
HighScoreRows ==
    {i \in RowIndexes : df.rows[i]["score"] # NaN /\ df.rows[i]["score"] >= 4}
RecommendedRows == {i \in RowIndexes : df.rows[i]["Food#Recommend"] = "positive"}

\* C4: the positive rate is within [0,100]; with a score column it is
\* 100 * (rows with score >= 4) / (rows) whatever the labels are, and without
\* one it is 100 * (rows with Food#Recommend positive) / (rows); ten rows with
\* six of score >= 4 give 60.
C4_PositiveRate ==
    Bound("positive_rate") =>
      LET n == Cardinality(RowIndexes) IN
      /\ positive_rate.den > 0
      /\ 0 <= positive_rate.num /\ positive_rate.num <= 100 * positive_rate.den
      /\ "score" \in df.columns
         => positive_rate.num * n = 100 * Cardinality(HighScoreRows) * positive_rate.den
      /\ "score" \notin df.columns
         => positive_rate.num * n = 100 * Cardinality(RecommendedRows) * positive_rate.den
      /\ ("score" \in df.columns /\ n = 10 /\ Cardinality(HighScoreRows) = 6)
         => positive_rate.num = 60 * positive_rate.den

C4_Witness ==
    /\ Bound("positive_rate")
    /\ "score" \in df.columns
    /\ Cardinality(RowIndexes) = 10
    /\ Cardinality(HighScoreRows) = 6
    /\ Cardinality(RecommendedRows) # 6
    /\ positive_rate.num = 60 * positive_rate.den

\* the rows that mention a dimension
Mentioned(c) == Cardinality({i \in RowIndexes : df.rows[i][c] # "not-mentioned"})

\* C5: the top aspect is the dimension with the highest count of rows that are
\* not 'not-mentioned', and of several with that count the first in
\* LABEL_COLUMNS.
C5_TopAspect ==
    Bound("top_aspect") =>
      \E i \in DOMAIN LABEL_COLUMNS :
        /\ top_aspect = LABEL_COLUMNS[i]
        /\ \A j \in DOMAIN LABEL_COLUMNS : Mentioned(LABEL_COLUMNS[j]) <= Mentioned(top_aspect)
        /\ \A j \in 1..(i - 1) : Mentioned(LABEL_COLUMNS[j]) < Mentioned(top_aspect)

\* a tie at the top between two dimensions, neither the first of the list
C5_Witness ==
    /\ Bound("top_aspect")
    /\ top_aspect # LABEL_COLUMNS[1]
    /\ \E c \in LabelSet \ {top_aspect} : Mentioned(c) = Mentioned(top_aspect)
    /\ Mentioned(top_aspect) > Mentioned(LABEL_COLUMNS[1])

\* C6: the negative top 5 has at most 5 entries, sorted by count descending;
\* when the long-format aggregate is empty, the list is empty, the success
\* indicator is shown and no error is raised.
C6_NegativeTop5 ==
    /\ Bound("neg_counts")
       => /\ Len(neg_counts) <= 5
          /\ \A i \in 1..(Len(neg_counts) - 1) :
               neg_counts[i].comment_count >= neg_counts[i + 1].comment_count
    /\ (Bound("df_plot") /\ df_plot = <<>> /\ pc \in Terminal)
       => /\ exception = "none"
          /\ Bound("neg_counts") /\ neg_counts = <<>>
          /\ sections["negative"] = "success"

C8_RoundTrip ==
    Bound("csv")
    => /\ csv.bom
       /\ load_data(csv) = df
       /\ LET again == load_data(csv) IN
          /\ Len(again.rows) = Len(df.rows)
          /\ \A i \in DOMAIN df.rows : \A c \in df.columns :
               again.rows[i][c] = df.rows[i][c]

\* a table exported with a time that was coerced to NaT, one that was kept
\* and is written in another spelling than it was read in, and float scores
C8_Witness ==
    /\ Bound("csv")
    /\ "time" \in df.columns /\ "score" \in df.columns
    /\ \E i \in DOMAIN df.rows :
         /\ TheFile.rows[i]["time"] \notin NA_VALUES
         /\ df.rows[i]["time"] = NaT
    /\ \E i \in DOMAIN df.rows :
         /\ df.rows[i]["time"] # NaT
         /\ TheFile.rows[i]["time"] # csv.rows[i]["time"]
    /\ df.score_dtype = "float64"

\* C9 (state part): a run that differs from the one before it in the date
\* range alone puts out what that one did, and what it puts out is made from
\* the whole loaded table.
DateRangeNoEffect ==
    /\ (pc = "done" /\ snapshot # Unset) => Outputs = snapshot
    /\ pc = "done"
       => /\ df = load_data(TheFile)
          /\ total_comments = Len(df.rows)
          /\ shown_table = df
          /\ Len(csv.rows) = Len(df.rows)

\* C9: the date range changes no output, and the loaded table is never
\* modified after load_data has returned.
C9_DateRangeNoEffect ==
    /\ []DateRangeNoEffect
    /\ [][(Bound("df") /\ pc' # "start") => df' = df]_vars

\* a run after the date range was narrowed to one that leaves rows out
C9_Witness ==
    /\ pc = "done"
    /\ snapshot # Unset
    /\ Bound("date_range")
    /\ \E i \in DOMAIN df.rows :
         df.rows[i]["time"] # NaT /\ df.rows[i]["time"] > date_range[2]
    /\ \E i \in DOMAIN df.rows : df.rows[i]["time"] = NaT

FOUR_LABELS == {"positive", "neutral", "negative", "not-mentioned"}

\* the total of a dimension in the long-format aggregate
AggregateTotal(c) ==
    SeqSum([k \in DOMAIN df_plot |->
              IF df_plot[k].raw_dimension = c THEN df_plot[k].comment_count ELSE 0])

OnlyFourLabels(c) == \A i \in RowIndexes : df.rows[i][c] \in FOUR_LABELS

\* C10: for a dimension whose cells hold only the four labels, the KPI's
\* mentioned-count is the sum of its positive, neutral and negative counts in
\* the long-format aggregate, and when that holds of all 18 the top aspect has
\* a maximal total in the ranking chart; for a dimension with a cell holding
\* anything else, the two counts differ.
C10_MentionedIsAggregate ==
    /\ (Bound("counts") /\ Bound("df_plot"))
       => \A c \in LabelSet :
            /\ OnlyFourLabels(c) => counts[c] = AggregateTotal(c)
            /\ ~OnlyFourLabels(c) => counts[c] # AggregateTotal(c)
    /\ (Bound("aspect_counts") /\ \A c \in LabelSet : OnlyFourLabels(c))
       => /\ ASPECT_MAP(top_aspect) \in DOMAIN aspect_counts
          /\ \A n \in DOMAIN aspect_counts :
               aspect_counts[n] <= aspect_counts[ASPECT_MAP(top_aspect)]
          /\ \A c \in LabelSet :
               counts[c] > 0 => (/\ ASPECT_MAP(c) \in DOMAIN aspect_counts
                                 /\ aspect_counts[ASPECT_MAP(c)] = counts[c])

C10_Witness ==
    /\ Bound("aspect_counts")
    /\ \A c \in LabelSet : OnlyFourLabels(c)
    /\ Len(df.rows) >= 2
    /\ \E c \in LabelSet : counts[c] = 0
    /\ \E c \in LabelSet : counts[c] > 0 /\ counts[c] < counts[top_aspect]
    /\ \E k \in DOMAIN df_plot : df_plot[k].sentiment = "neutral"

====
